---- MODULE Spec2Model ----
(***************************************************************************)
(* Model of tmux-namer-openai: the hook script that renames a tmux window  *)
(* from recent user messages.  Two variants are modelled:                  *)
(*   "scripts" : src/scripts/tmux-namer-openai.py                          *)
(*   "root"    : src/tmux-namer-openai.py                                  *)
(* Python strings are sequences of one-character strings.  Python's None   *)
(* is the distinguished sequence NONE.                                     *)
(***************************************************************************)
EXTENDS Integers, Sequences, FiniteSets, TLC

VARIABLES
    variant,        \* which script runs: "scripts" or "root"
    hasFork,        \* TRUE iff os.fork exists on the platform
    pc,             \* [Procs -> position in main]
    exitCode,       \* [Procs -> -1 (not exited), 0 (clean), 1 (uncaught exception)]
    hook_data,      \* [Procs -> stdin value as parsed by json.load]
    window_target,  \* [Procs -> result of get_tmux_window]
    transcript,     \* the transcript file read_transcript was given
    msg_count,      \* [Procs -> user-turn count returned by read_transcript]
    questions,      \* [Procs -> texts returned by the reader]
    apiResult,      \* [Procs -> outcome of the text-generation call]
    name,           \* [Procs -> candidate / sanitized label]
    calls,          \* sequence of external calls issued (subprocess, network)
    sanIn,          \* sanitizer check: the input
    sanOut,         \* sanitizer check: sanitize_name(sanIn)
    sanTwice,       \* sanitizer check: sanitize_name(sanitize_name(sanIn))
    sanPhase,       \* sanitizer check: "in" or "done"
    locEnv,         \* locator check: environment and pane listing
    locOut,         \* locator check: result of get_tmux_window
    locPhase,       \* locator check: "in" or "done"
    rtIn,           \* reader check: transcript file
    rtOut,          \* reader check: result of read_transcript
    rtPhase         \* reader check: "in" or "done"

mainVars == <<variant, hasFork, pc, exitCode, hook_data, window_target, transcript,
              msg_count, questions, apiResult, name, calls>>
sanVars == <<sanIn, sanOut, sanTwice, sanPhase>>
locVars == <<locEnv, locOut, locPhase>>
rtVars == <<rtIn, rtOut, rtPhase>>
vars == <<mainVars, sanVars, locVars, rtVars>>

Variants == {"scripts", "root"}

----------------------------------------------------------------------------
(* Python values *)

\* None
NONE == <<"<None>">>

\* an uncaught exception leaving a function
RAISED == <<"<raised>">>

\* Python truthiness of an optional string: None and "" are falsy
Falsy(x) == x = NONE \/ x = <<>>

\* str.strip() removes these from both ends
Whitespace == {" ", "\t", "\n"}

RECURSIVE LStrip(_)
LStrip(s) ==
    IF s = <<>> THEN <<>>
    ELSE IF Head(s) \in Whitespace THEN LStrip(Tail(s)) ELSE s

RECURSIVE RStrip(_)
RStrip(s) ==
    IF s = <<>> THEN <<>>
    ELSE IF s[Len(s)] \in Whitespace THEN RStrip(SubSeq(s, 1, Len(s) - 1)) ELSE s

\* str.strip()
Strip(s) == RStrip(LStrip(s))

\* s[:n]
Take(s, n) == IF Len(s) > n THEN SubSeq(s, 1, n) ELSE s

\* the characters of s that belong to keep, in order (re.sub of the complement class)
RECURSIVE KeepOnly(_, _)
KeepOnly(s, keep) ==
    IF s = <<>> THEN <<>>
    ELSE IF Head(s) \in keep THEN <<Head(s)>> \o KeepOnly(Tail(s), keep)
         ELSE KeepOnly(Tail(s), keep)

\* n copies of character c
RECURSIVE Repeat(_, _)
Repeat(c, n) == IF n <= 0 THEN <<>> ELSE <<c>> \o Repeat(c, n - 1)

\* all sequences over S of length at most n
RECURSIVE SeqsUpTo(_, _)
SeqsUpTo(S, n) ==
    IF n = 0 THEN {<<>>}
    ELSE LET shorter == SeqsUpTo(S, n - 1)
         IN shorter \cup {<<c>> \o s : c \in S, s \in {t \in shorter : Len(t) = n - 1}}

----------------------------------------------------------------------------
(* Label Sanitizer *)

\* the characters the model's strings are made of, by class
Letters == {"a", "Z"}
Digits == {"7"}
Alphabet == {"a", "7", " ", "-", "!"}

\* [^a-zA-Z0-9\- ] keeps these (scripts); [^a-zA-Z0-9 ] keeps these (root)
AllowList(v) ==
    IF v = "scripts" THEN Letters \cup Digits \cup {"-", " "}
    ELSE Letters \cup Digits \cup {" "}

MaxLenScripts == 25
MaxLenRoot == 40
MaxNameLen(v) == IF v = "scripts" THEN MaxLenScripts ELSE MaxLenRoot

\* plausible slip: trimming before truncating instead of after
sanitize_name_TrimFirst(v, n) ==
    IF Falsy(n) THEN <<>>
    ELSE Take(Strip(KeepOnly(n, AllowList(v))), MaxNameLen(v))

\* plausible slip: the allow-list filter is left out
sanitize_name_NoFilter(v, n) ==
    IF Falsy(n) THEN <<>>
    ELSE Strip(Take(n, MaxNameLen(v)))

sanitize_name(v, n) ==
    IF Falsy(n) THEN <<>>
    ELSE Strip(Take(KeepOnly(n, AllowList(v)), MaxNameLen(v)))

\* bounds of the sanitizer inputs: head ++ filler ++ tail
MaxPre == 1
MaxSuf == 2
FillSlack == 4
FillChars == {"a", "!"}
FillLens(v) == {0} \cup ((MaxNameLen(v) - FillSlack) .. (MaxNameLen(v) + 1))

SanInputs(v) ==
    {NONE} \cup
    {p \o Repeat(c, k) \o s :
        p \in SeqsUpTo(Alphabet, MaxPre), c \in FillChars,
        k \in FillLens(v), s \in SeqsUpTo(Alphabet, MaxSuf)}

----------------------------------------------------------------------------
(* Window Locator *)

DevPrefix == <<"/", "d", "e", "v", "/">>
Pts3 == <<"p", "t", "s", "/", "3">>
Pts7 == <<"p", "t", "s", "/", "7">>
SessA == <<"s", "e", "s", "s", "A">>
MySess == <<"m", "y", " ", "s">>

\* values of #{pane_id} (scripts) and #{pane_tty} (root) in the model
PaneHandles(v) ==
    IF v = "scripts" THEN {<<"%", "1">>, <<"%", "2">>}
    ELSE {DevPrefix \o Pts3, DevPrefix \o Pts7}

\* tmux session names may contain spaces; window ids are @N
SessionNames == {SessA, MySess}
WindowIds == {<<"@", "1">>, <<"@", "2">>}

Panes(v) == [handle : PaneHandles(v), session : SessionNames, window : WindowIds]

\* the identity tmux addresses the pane's window by: session_name:window_id
WindowIdentity(p) == p.session \o <<":">> \o p.window

\* one line of `tmux list-panes -a -F '#{pane_id} #{session_name}:#{window_id}'`
FormatPane(p) == p.handle \o <<" ">> \o WindowIdentity(p)

\* str.split(): maximal runs of non-whitespace characters
RECURSIVE SplitFrom(_, _)
SplitFrom(s, cur) ==
    IF s = <<>> THEN (IF cur = <<>> THEN <<>> ELSE <<cur>>)
    ELSE IF Head(s) \in Whitespace
         THEN (IF cur = <<>> THEN <<>> ELSE <<cur>>) \o SplitFrom(Tail(s), <<>>)
         ELSE SplitFrom(Tail(s), Append(cur, Head(s)))

Split(s) == SplitFrom(s, <<>>)

\* the for loop over result.stdout.splitlines()
RECURSIVE MatchLines(_, _)
MatchLines(lines, handle) ==
    IF lines = <<>> THEN NONE
    ELSE LET parts == Split(Head(lines))
         IN IF Len(parts) >= 2 /\ parts[1] = handle THEN parts[2]
            ELSE MatchLines(Tail(lines), handle)

\* outcome of subprocess.run(..., check=True)
RunStatus == {"ok", "nonzero", "absent"}

ListingLines(env) == [i \in 1 .. Len(env.panes) |-> FormatPane(env.panes[i])]

\* the tmux list-panes query and the scan of its output
ScanPanes(env, handle) ==
    IF env.listStatus = "absent" THEN RAISED        \* FileNotFoundError is not caught
    ELSE IF env.listStatus = "nonzero" THEN NONE    \* CalledProcessError
    ELSE MatchLines(ListingLines(env), handle)

\* claude_tty after strip() and the /dev/ normalisation
NormalizeTty(out) ==
    LET t == Strip(out)
    IN IF t # <<>> /\ Head(t) # "/" THEN DevPrefix \o t ELSE t

get_tmux_window(v, env) ==
    IF Falsy(env.TMUX) THEN NONE
    ELSE IF v = "scripts"
    THEN IF Falsy(env.TMUX_PANE) THEN NONE
         ELSE ScanPanes(env, env.TMUX_PANE)
    ELSE IF env.psStatus = "absent" THEN RAISED
         ELSE IF env.psStatus = "nonzero" THEN NONE
         ELSE IF Strip(env.psOut) = <<>> THEN NONE
         ELSE ScanPanes(env, NormalizeTty(env.psOut))

\* the subprocess invocations get_tmux_window makes, in order
LocatorCalls(v, env) ==
    IF Falsy(env.TMUX) THEN <<>>
    ELSE IF v = "scripts"
    THEN IF Falsy(env.TMUX_PANE) THEN <<>> ELSE <<"list-panes">>
    ELSE IF env.psStatus # "ok" \/ Strip(env.psOut) = <<>> THEN <<"ps">>
         ELSE <<"ps", "list-panes">>

\* the handle the caller is identified by, NONE when it has none
CallerHandle(v, env) ==
    IF v = "scripts" THEN (IF Falsy(env.TMUX_PANE) THEN NONE ELSE env.TMUX_PANE)
    ELSE IF env.psStatus # "ok" \/ Strip(env.psOut) = <<>> THEN NONE
         ELSE NormalizeTty(env.psOut)

MaxPanes == 2

TmuxValues == {NONE, <<>>, <<"/", "t", ",", "1">>}
PsOutputs == {<<>>, <<"\n">>, Pts3 \o <<"\n">>, Pts7 \o <<"\n">>,
              DevPrefix \o Pts7 \o <<"\n">>, <<"?">>}

LocEnvs(v) ==
    [v : {v}, TMUX : TmuxValues,
     TMUX_PANE : IF v = "scripts" THEN {NONE, <<>>} \cup PaneHandles(v) ELSE {NONE},
     psStatus : IF v = "root" THEN RunStatus ELSE {"ok"},
     psOut : IF v = "root" THEN PsOutputs ELSE {<<>>},
     listStatus : RunStatus,
     panes : SeqsUpTo(Panes(v), MaxPanes)]

----------------------------------------------------------------------------
(* Transcript Reader *)

Hi == <<"h", "i">>

\* content blocks: a dict with type "text", a dict of another type, or a non-dict item
TextBlock(t) == [btype |-> "text", text |-> t]
ImageBlock == [btype |-> "image", text |-> <<>>]
NonDictBlock == [btype |-> "<nondict>", text |-> <<>>]

\* ' '.join(texts)
RECURSIVE JoinSpace(_)
JoinSpace(ts) ==
    IF ts = <<>> THEN <<>>
    ELSE IF Len(ts) = 1 THEN ts[1]
    ELSE ts[1] \o <<" ">> \o JoinSpace(Tail(ts))

\* item.get('text', '') for the items that are dicts of type 'text'
RECURSIVE TextsOf(_)
TextsOf(items) ==
    IF items = <<>> THEN <<>>
    ELSE IF Head(items).btype = "text" THEN <<Head(items).text>> \o TextsOf(Tail(items))
         ELSE TextsOf(Tail(items))

\* transcript lines: blank, not JSON, JSON that is not an object, or an entry object
BlankLine == [kind |-> "blank", type |-> "", ckind |-> "", text |-> <<>>, items |-> <<>>]
BadJsonLine == [kind |-> "badjson", type |-> "", ckind |-> "", text |-> <<>>, items |-> <<>>]
NonObjectLine == [kind |-> "nonobject", type |-> "", ckind |-> "", text |-> <<>>, items |-> <<>>]
StrEntry(ty, t) == [kind |-> "entry", type |-> ty, ckind |-> "str", text |-> t, items |-> <<>>]
ListEntry(ty, its) == [kind |-> "entry", type |-> ty, ckind |-> "list", text |-> <<>>, items |-> its]
OtherEntry(ty) == [kind |-> "entry", type |-> ty, ckind |-> "other", text |-> <<>>, items |-> <<>>]

\* text[:200]
MaxQuestionLen == 200
\* questions[-5:] (scripts), questions[-3:] (root)
KeepLastScripts == 5
KeepLastRoot == 3

\* s[-n:]
LastN(s, n) == IF Len(s) > n THEN SubSeq(s, Len(s) - n + 1, Len(s)) ELSE s

\* the text extracted from one user entry
EntryText(e) ==
    IF e.ckind = "str" THEN Strip(e.text)
    ELSE IF e.ckind = "list" THEN Strip(JoinSpace(TextsOf(e.items)))
    ELSE <<>>

ReadResult(r, c, q) == [raised |-> r, count |-> c, questions |-> q]

\* the loop of read_transcript over the lines of the file
RECURSIVE ReadLines(_, _, _)
ReadLines(lines, count, qs) ==
    IF lines = <<>> THEN ReadResult(FALSE, count, LastN(qs, KeepLastScripts))
    ELSE LET e == Head(lines)
         IN CASE e.kind = "blank" -> ReadLines(Tail(lines), count, qs)
              \* json.JSONDecodeError leaves the loop; the except clause passes
              [] e.kind = "badjson" -> ReadResult(FALSE, count, LastN(qs, KeepLastScripts))
              \* entry.get on a non-dict: AttributeError is not caught
              [] e.kind = "nonobject" -> ReadResult(TRUE, count, <<>>)
              [] OTHER ->
                    IF e.type = "user"
                    THEN LET text == EntryText(e)
                         IN ReadLines(Tail(lines), count + 1,
                                IF text # <<>> THEN Append(qs, Take(text, MaxQuestionLen)) ELSE qs)
                    ELSE ReadLines(Tail(lines), count, qs)

\* a transcript file: missing (open raises OSError) or a sequence of lines
MissingFile == [status |-> "missing", lines |-> <<>>]
FileOf(ls) == [status |-> "ok", lines |-> ls]

read_transcript(file) ==
    IF file.status = "missing" THEN ReadResult(FALSE, 0, <<>>)
    ELSE ReadLines(file.lines, 0, <<>>)

\* TRUE iff the file cannot be opened or one of its lines is not valid JSON
Unparseable(file) ==
    \/ file.status = "missing"
    \/ \E i \in 1 .. Len(file.lines) : file.lines[i].kind = "badjson"

\* bounds and inputs of the reader check
MaxRtLines == 4
RtLineSet ==
    {BlankLine, BadJsonLine, NonObjectLine, StrEntry("user", Hi), StrEntry("user", <<" ">>),
     ListEntry("user", <<TextBlock(Hi), ImageBlock, NonDictBlock, TextBlock(<<"a">>)>>),
     OtherEntry("user"), StrEntry("assistant", Hi)}
RtFiles == {MissingFile} \cup {FileOf(ls) : ls \in SeqsUpTo(RtLineSet, MaxRtLines)}

----------------------------------------------------------------------------
(* Values the variables of a check hold while another check runs *)

Procs == {"orig", "dup"}

\* apiResult before the text-generation call was made
NoApiResult == [kind |-> "none", content |-> NONE, errMessage |-> NONE]

MainIdle ==
    /\ variant = "scripts"
    /\ hasFork = TRUE
    /\ pc = [p \in Procs |-> "idle"]
    /\ exitCode = [p \in Procs |-> -1]
    /\ hook_data = [p \in Procs |-> NONE]
    /\ window_target = [p \in Procs |-> NONE]
    /\ transcript = NONE
    /\ msg_count = [p \in Procs |-> 0]
    /\ questions = [p \in Procs |-> <<>>]
    /\ apiResult = [p \in Procs |-> NoApiResult]
    /\ name = [p \in Procs |-> NONE]
    /\ calls = <<>>

SanIdle == sanIn = NONE /\ sanOut = NONE /\ sanTwice = NONE /\ sanPhase = "idle"
LocIdle == locEnv = NONE /\ locOut = NONE /\ locPhase = "idle"
RtIdle == rtIn = NONE /\ rtOut = NONE /\ rtPhase = "idle"

----------------------------------------------------------------------------
(* Check of sanitize_name as a function of its input *)

InitSanitize ==
    /\ MainIdle /\ LocIdle /\ RtIdle
    /\ sanIn \in UNION {[v : {v}, s : SanInputs(v)] : v \in Variants}
    /\ sanOut = NONE
    /\ sanTwice = NONE
    /\ sanPhase = "in"

ApplySanitize ==
    /\ sanPhase = "in"
    /\ sanOut' = sanitize_name(sanIn.v, sanIn.s)
    /\ sanTwice' = sanitize_name(sanIn.v, sanitize_name(sanIn.v, sanIn.s))
    /\ sanPhase' = "done"
    /\ UNCHANGED <<sanIn, mainVars, locVars, rtVars>>

NextSanitize == ApplySanitize

SpecSanitize == InitSanitize /\ [][NextSanitize]_vars

\* the allow-lists and maxima the sanitizer declares
DeclaredAllow(v) ==
    IF v = "scripts" THEN {"a", "Z", "7", " ", "-"} ELSE {"a", "Z", "7", " "}
DeclaredMax(v) == IF v = "scripts" THEN 25 ELSE 40

SanitizeIdempotent ==
    sanPhase = "done" => sanTwice = sanOut

\* truncation left a trailing space, which the final trim removed
SanitizeTrimmedAfterCut ==
    /\ sanPhase = "done"
    /\ sanIn.s # NONE
    /\ LET kept == KeepOnly(sanIn.s, DeclaredAllow(sanIn.v))
       IN /\ Len(kept) > DeclaredMax(sanIn.v)
          /\ kept[DeclaredMax(sanIn.v)] = " "
    /\ sanOut # <<>>
    /\ Len(sanOut) < DeclaredMax(sanIn.v)
    /\ sanTwice = sanOut

----------------------------------------------------------------------------
(* Check of get_tmux_window as a function of the environment *)

InitLocator ==
    /\ MainIdle /\ SanIdle /\ RtIdle
    /\ locEnv \in LocEnvs("scripts") \cup LocEnvs("root")
    /\ locOut = NONE
    /\ locPhase = "in"

ApplyLocator ==
    /\ locPhase = "in"
    /\ locOut' = get_tmux_window(locEnv.v, locEnv)
    /\ locPhase' = "done"
    /\ UNCHANGED <<locEnv, mainVars, sanVars, rtVars>>

NextLocator == ApplyLocator

SpecLocator == InitLocator /\ [][NextLocator]_vars

\* the identity of the first listed pane whose handle equals h, NONE when there is none
RECURSIVE FirstPaneIdentity(_, _)
FirstPaneIdentity(panes, h) ==
    IF panes = <<>> THEN NONE
    ELSE IF Head(panes).handle = h THEN WindowIdentity(Head(panes))
         ELSE FirstPaneIdentity(Tail(panes), h)

\* C4: get_tmux_window returns no target when TMUX is absent or empty; otherwise it
\* returns the session:window identity of the first listed pane whose handle equals
\* the caller handle, and no target when none is equal or the listing query fails.
\* (Stated of the calls that return; a call that raises returns nothing at all.)
LocatorReturnsFirstExactMatch ==
    (locPhase = "done" /\ locOut # RAISED) =>
        IF Falsy(locEnv.TMUX) THEN locOut = NONE
        ELSE IF CallerHandle(locEnv.v, locEnv) = NONE \/ locEnv.listStatus # "ok"
             THEN locOut = NONE
             ELSE locOut = FirstPaneIdentity(locEnv.panes, CallerHandle(locEnv.v, locEnv))

----------------------------------------------------------------------------
(* Check of read_transcript as a function of the transcript file *)

InitReader ==
    /\ MainIdle /\ SanIdle /\ LocIdle
    /\ rtIn \in RtFiles
    /\ rtOut = NONE
    /\ rtPhase = "in"

ApplyReader ==
    /\ rtPhase = "in"
    /\ rtOut' = read_transcript(rtIn)
    /\ rtPhase' = "done"
    /\ UNCHANGED <<rtIn, mainVars, sanVars, locVars>>

NextReader == ApplyReader

SpecReader == InitReader /\ [][NextReader]_vars

\* C8: when the transcript cannot be opened or holds a line that is not valid JSON,
\* read_transcript produces a count of 0 and an empty text list.
\* (Stated of the calls that return; a call that raises produces nothing at all.)
UnparseableTranscriptGivesZero ==
    (rtPhase = "done" /\ Unparseable(rtIn) /\ ~rtOut.raised) =>
        /\ rtOut.count = 0
        /\ rtOut.questions = <<>>

----------------------------------------------------------------------------
(* Hook input (stdin) and the root variant's question extraction *)

\* hook_data['conversation']: key absent, JSON null, or a list of messages
ConvAbsent == [ckind |-> "absent", msgs |-> <<>>]
ConvNull == [ckind |-> "null", msgs |-> <<>>]
ConvOf(ms) == [ckind |-> "list", msgs |-> ms]

\* a message: a dict with role and content, or a value that is not a dict
Msg(role, ck, its) == [mkind |-> "dict", role |-> role, ckind |-> ck, items |-> its]
NonDictMsg == [mkind |-> "nondict", role |-> "", ckind |-> "", items |-> <<>>]

\* the texts one message contributes: text.strip() of its text blocks, when non-empty
RECURSIVE StrippedTexts(_)
StrippedTexts(items) ==
    IF items = <<>> THEN <<>>
    ELSE LET rest == StrippedTexts(Tail(items))
         IN IF Head(items).btype = "text" /\ Strip(Head(items).text) # <<>>
            THEN <<Strip(Head(items).text)>> \o rest
            ELSE rest

\* the loop of extract_user_questions; RAISED when an entry cannot be walked
RECURSIVE ExtractLoop(_, _)
ExtractLoop(msgs, qs) ==
    IF msgs = <<>> THEN LastN(qs, KeepLastRoot)
    ELSE LET m == Head(msgs)
         IN IF m.mkind = "nondict" THEN RAISED               \* message.get: AttributeError
            ELSE IF m.role # "user" THEN ExtractLoop(Tail(msgs), qs)
            ELSE IF m.ckind = "null" THEN RAISED              \* for item in None: TypeError
            ELSE IF m.ckind = "list" THEN ExtractLoop(Tail(msgs), qs \o StrippedTexts(m.items))
            ELSE ExtractLoop(Tail(msgs), qs)                  \* absent, or a str of characters

extract_user_questions(d) ==
    IF d.conv.ckind = "null" THEN RAISED
    ELSE ExtractLoop(d.conv.msgs, <<>>)

TranscriptPath == <<"/", "t">>

\* what json.load(sys.stdin) meets: nothing, text that is not JSON, JSON that is not
\* an object, or an object
StdinOf(k, path, conv) == [kind |-> k, transcript_path |-> path, conv |-> conv]

ConvSet ==
    {ConvAbsent, ConvNull,
     ConvOf(<<Msg("user", "list", <<TextBlock(Hi), ImageBlock>>)>>),
     ConvOf(<<Msg("assistant", "list", <<TextBlock(Hi)>>), Msg("user", "str", <<>>)>>),
     ConvOf(<<Msg("user", "null", <<>>)>>),
     ConvOf(<<NonDictMsg>>)}

StdinValues(v) ==
    {StdinOf(k, NONE, ConvAbsent) : k \in {"empty", "malformed", "nonobject"}} \cup
    (IF v = "scripts"
     THEN {StdinOf("object", path, ConvAbsent) : path \in {NONE, <<>>, TranscriptPath}}
     ELSE {StdinOf("object", NONE, c) : c \in ConvSet})

----------------------------------------------------------------------------
(* Text-generation call *)

\* outcomes of the call: no credential, transport failure, HTTP error status,
\* a 2xx body that is not JSON, a JSON body without the expected fields, or a
\* body whose choices[0].message.content is content (NONE for JSON null)
ApiOutcome(k, content, errMessage) == [kind |-> k, content |-> content, errMessage |-> errMessage]

\* the HTTP error body is not JSON, or carries no error.message
NoErrMessage == <<"<no error.message>">>

LongCandidate == Repeat("a", MaxLenScripts - 1) \o <<" ", "Z">>

Candidates ==
    {<<>>, <<" ">>, <<"a", "-", "Z">>, <<"!", "!">>, <<"a", "!", " ", "7", "\n">>, LongCandidate}

ApiOutcomes ==
    {ApiOutcome(k, NONE, NONE) : k \in {"nokey", "timeout", "badjson", "nofields"}} \cup
    {ApiOutcome("http500", NONE, m) : m \in {NoErrMessage, <<"l", "i", "m", "i", "t">>, <<>>, NONE}} \cup
    {ApiOutcome("ok", c, NONE) : c \in Candidates \cup {NONE}}

\* the call failed: everything but a body that yields a string content
ApiFailed(o) == o.kind # "ok" \/ o.content = NONE

\* call_openai of the scripts variant: every failure is None
call_openai(o) ==
    IF ApiFailed(o) THEN NONE ELSE Strip(o.content)

\* call_openai_responses of the root variant: (name, error, cost)
ApiReturn(n, e, c) == [name |-> n, error |-> e, hasCost |-> c]
call_openai_responses(o) ==
    CASE o.kind = "nokey" -> ApiReturn(NONE, <<"OPENAI_API_KEY not set">>, FALSE)
      [] o.kind = "timeout" -> ApiReturn(NONE, <<"Network error: timed out">>, FALSE)
      [] o.kind = "http500" ->
            \* error_body.get('error', {}).get('message', error_msg)
            ApiReturn(NONE,
                      IF o.errMessage = NoErrMessage
                      THEN <<"HTTP 500: Internal Server Error">> ELSE o.errMessage,
                      FALSE)
      [] o.kind = "badjson" -> ApiReturn(NONE, <<"Expecting value">>, FALSE)
      [] o.kind = "nofields" -> ApiReturn(NONE, <<"'choices'">>, FALSE)
      [] OTHER ->
            IF o.content = NONE
            THEN ApiReturn(NONE, <<"'NoneType' object has no attribute 'strip'">>, FALSE)
            ELSE ApiReturn(Strip(o.content), NONE, TRUE)

\* log_cost raises when it formats a None cost ({cost:.6f}) on the non-error branch
LogCostRaises(error, hasCost) == Falsy(error) /\ ~hasCost

----------------------------------------------------------------------------
(* One invocation of main: the caller-facing process "orig" and the process  *)
(* "dup" that os.fork creates                                                *)

MaxLines == 6

MainLineSet == {BadJsonLine, NonObjectLine, StrEntry("user", Hi), StrEntry("assistant", Hi)}
MainFiles == {MissingFile} \cup {FileOf(ls) : ls \in SeqsUpTo(MainLineSet, MaxLines)}

\* environments the locator meets inside main: at most one pane listed
MainPanes(v) == {p \in Panes(v) : p.window = <<"@", "1">>}
MainLocEnvs(v) ==
    [v : {v}, TMUX : {NONE, <<"/", "t", ",", "1">>},
     TMUX_PANE : IF v = "scripts" THEN {NONE, <<"%", "1">>} ELSE {NONE},
     psStatus : IF v = "root" THEN RunStatus ELSE {"ok"},
     psOut : IF v = "root" THEN {<<>>, Pts3 \o <<"\n">>} ELSE {<<>>},
     listStatus : RunStatus,
     panes : SeqsUpTo(MainPanes(v), 1)]

\* an external call: a subprocess invocation or the network request
Call(p, k, target, label, status) ==
    [proc |-> p, kind |-> k, target |-> target, label |-> label, status |-> status]

RECURSIVE CallsOf(_, _)
CallsOf(p, kinds) ==
    IF kinds = <<>> THEN <<>>
    ELSE <<Call(p, Head(kinds), NONE, NONE, "")>> \o CallsOf(p, Tail(kinds))

Init ==
    /\ SanIdle /\ LocIdle /\ RtIdle
    /\ variant \in Variants
    /\ hasFork \in BOOLEAN
    /\ pc = [p \in Procs |->
                IF p = "dup" THEN "unborn"
                ELSE IF variant = "scripts" THEN "stdin" ELSE "fork"]
    /\ exitCode = [p \in Procs |-> -1]
    /\ hook_data = [p \in Procs |-> NONE]
    /\ window_target = [p \in Procs |-> NONE]
    /\ transcript = NONE
    /\ msg_count = [p \in Procs |-> 0]
    /\ questions = [p \in Procs |-> <<>>]
    /\ apiResult = [p \in Procs |-> NoApiResult]
    /\ name = [p \in Procs |-> NONE]
    /\ calls = <<>>

\* sys.exit(0) or falling off the end of main (code 0); an uncaught exception (code 1)
Exit(p, code) ==
    /\ pc' = [pc EXCEPT ![p] = "done"]
    /\ exitCode' = [exitCode EXCEPT ![p] = code]

Goto(p, label) ==
    /\ pc' = [pc EXCEPT ![p] = label]
    /\ UNCHANGED exitCode

\* hook_data = json.load(sys.stdin) and the checks that follow it
ReadStdin(p) ==
    /\ pc[p] = "stdin"
    /\ \E d \in StdinValues(variant) :
        /\ hook_data' = [hook_data EXCEPT ![p] = d]
        /\ IF d.kind \in {"empty", "malformed"} THEN Exit(p, 0)   \* json.JSONDecodeError
           ELSE IF variant = "scripts"
           THEN IF d.kind = "nonobject" THEN Exit(p, 1)           \* hook_data.get: AttributeError
                ELSE IF Falsy(d.transcript_path) THEN Exit(p, 0)
                ELSE Goto(p, "fork")
           ELSE Goto(p, "extract")
    /\ UNCHANGED <<sanVars, locVars, rtVars, variant, hasFork, window_target, transcript, msg_count, questions,
                   apiResult, name, calls>>

\* questions = extract_user_questions(hook_data)  (root)
Extract(p) ==
    /\ pc[p] = "extract"
    /\ LET r == IF hook_data[p].kind = "nonobject" THEN RAISED
                ELSE extract_user_questions(hook_data[p])
       IN IF r = RAISED
          THEN Exit(p, 1) /\ UNCHANGED questions
          ELSE Goto(p, "api") /\ questions' = [questions EXCEPT ![p] = r]
    /\ UNCHANGED <<sanVars, locVars, rtVars, variant, hasFork, hook_data, window_target, transcript, msg_count,
                   apiResult, name, calls>>

\* plausible slip: the pid test is inverted, the child exits and the parent goes on
fork_and_exit_ChildExits(p) ==
    IF hasFork
    THEN /\ pc' = [pc EXCEPT ![p] = "locate", !["dup"] = "done"]
         /\ exitCode' = [exitCode EXCEPT !["dup"] = 0]
         /\ hook_data' = [hook_data EXCEPT !["dup"] = hook_data[p]]
    ELSE Goto(p, "locate") /\ UNCHANGED hook_data

\* os.fork(): the parent exits with 0, the child continues with a copy of the
\* parent's memory; without os.fork (AttributeError) the one process continues
fork_and_exit(p) ==
    IF hasFork
    THEN /\ pc' = [pc EXCEPT ![p] = "done", !["dup"] = "locate"]
         /\ exitCode' = [exitCode EXCEPT ![p] = 0]
         /\ hook_data' = [hook_data EXCEPT !["dup"] = hook_data[p]]
    ELSE Goto(p, "locate") /\ UNCHANGED hook_data

Fork(p) ==
    /\ pc[p] = "fork"
    /\ fork_and_exit(p)
    /\ UNCHANGED <<sanVars, locVars, rtVars, variant, hasFork, window_target, transcript, msg_count, questions,
                   apiResult, name, calls>>

\* window_target = get_tmux_window(); if not window_target: sys.exit(0)
Locate(p) ==
    /\ pc[p] = "locate"
    /\ \E env \in MainLocEnvs(variant) :
        LET t == get_tmux_window(variant, env)
        IN /\ calls' = calls \o CallsOf(p, LocatorCalls(variant, env))
           /\ IF t = RAISED THEN Exit(p, 1) /\ UNCHANGED window_target
              ELSE /\ window_target' = [window_target EXCEPT ![p] = t]
                   /\ IF Falsy(t) THEN Exit(p, 0)
                      ELSE Goto(p, IF variant = "scripts" THEN "read" ELSE "stdin")
    /\ UNCHANGED <<sanVars, locVars, rtVars, variant, hasFork, hook_data, transcript, msg_count, questions,
                   apiResult, name>>

\* msg_count, questions = read_transcript(transcript_path)  (scripts)
ReadTranscript(p) ==
    /\ pc[p] = "read"
    /\ \E f \in MainFiles :
        LET r == read_transcript(f)
        IN /\ transcript' = f
           /\ IF r.raised
              THEN Exit(p, 1) /\ UNCHANGED <<msg_count, questions>>
              ELSE /\ msg_count' = [msg_count EXCEPT ![p] = r.count]
                   /\ questions' = [questions EXCEPT ![p] = r.questions]
                   /\ Goto(p, "gate")
    /\ UNCHANGED <<sanVars, locVars, rtVars, variant, hasFork, hook_data, window_target,
                   apiResult, name, calls>>

\* plausible slip: the first message is forgotten, only multiples of 3 pass
GateProceeds_MultiplesOnly(n) == n # 0 /\ n % 3 = 0

\* the two early exits of the cadence gate: neither is taken
GateProceeds(n) == ~(n = 0) /\ ~(n > 1 /\ n % 3 # 0)

Gate(p) ==
    /\ pc[p] = "gate"
    /\ IF GateProceeds(msg_count[p]) THEN Goto(p, "windows") ELSE Exit(p, 0)
    /\ UNCHANGED <<sanVars, locVars, rtVars, variant, hasFork, hook_data, window_target, transcript, msg_count,
                   questions, apiResult, name, calls>>

\* other_windows = get_other_window_names(window_target); cwd = get_cwd()
OtherWindows(p) ==
    /\ pc[p] = "windows"
    /\ \E st \in RunStatus :
        /\ calls' = Append(calls, Call(p, "list-windows", NONE, NONE, st))
        /\ IF st = "absent" THEN Exit(p, 1)       \* FileNotFoundError is not caught
           ELSE Goto(p, "api")
    /\ UNCHANGED <<sanVars, locVars, rtVars, variant, hasFork, hook_data, window_target, transcript, msg_count,
                   questions, apiResult, name>>

\* name = call_openai(...) (scripts); name, error, ... = call_openai_responses(...) (root)
CallApi(p) ==
    /\ pc[p] = "api"
    /\ \E o \in ApiOutcomes :
        /\ apiResult' = [apiResult EXCEPT ![p] = o]
        /\ calls' = IF o.kind = "nokey" THEN calls
                    ELSE Append(calls, Call(p, "http", NONE, NONE, o.kind))
        /\ name' = [name EXCEPT ![p] =
                        IF variant = "scripts" THEN call_openai(o)
                        ELSE call_openai_responses(o).name]
    /\ Goto(p, "sanitize")
    /\ UNCHANGED <<sanVars, locVars, rtVars, variant, hasFork, hook_data, window_target, transcript, msg_count,
                   questions>>

\* plausible slip: the candidate is passed on without being sanitized
Sanitized_Skipped(v, n) == IF n = NONE THEN <<>> ELSE n

\* name = sanitize_name(name) as main applies it
Sanitized(v, n) == sanitize_name(v, n)

\* the failure check, sanitize_name and (root) log_cost
SanitizeStep(p) ==
    /\ pc[p] = "sanitize"
    /\ IF variant = "scripts"
       THEN IF Falsy(name[p]) THEN Exit(p, 0) /\ UNCHANGED name
            ELSE /\ name' = [name EXCEPT ![p] = Sanitized(variant, name[p])]
                 /\ Goto(p, "rename")
       ELSE LET r == call_openai_responses(apiResult[p])
            IN IF ~Falsy(r.error) THEN Exit(p, 0) /\ UNCHANGED name
               ELSE /\ name' = [name EXCEPT ![p] = Sanitized(variant, name[p])]
                    /\ IF LogCostRaises(r.error, r.hasCost) THEN Exit(p, 1)
                       ELSE Goto(p, "rename")
    /\ UNCHANGED <<sanVars, locVars, rtVars, variant, hasFork, hook_data, window_target,
                   transcript, msg_count, questions, apiResult, calls>>

\* plausible slip: a rename that exits non-zero is tried again
Rename_Retry(p) ==
    /\ pc[p] = "rename"
    /\ IF name[p] # <<>>
       THEN \E st \in RunStatus :
                /\ calls' = Append(calls, Call(p, "rename", window_target[p], name[p], st))
                /\ IF st = "nonzero" THEN Goto(p, "rename")
                   ELSE Exit(p, IF st = "absent" THEN 1 ELSE 0)
       ELSE Exit(p, 0) /\ UNCHANGED calls
    /\ UNCHANGED <<sanVars, locVars, rtVars, variant, hasFork, hook_data, window_target,
                   transcript, msg_count, questions, apiResult, name>>

\* if name: tmux rename-window -t window_target name; CalledProcessError is ignored
Rename(p) ==
    /\ pc[p] = "rename"
    /\ IF name[p] # <<>>
       THEN \E st \in RunStatus :
                /\ calls' = Append(calls, Call(p, "rename", window_target[p], name[p], st))
                /\ Exit(p, IF st = "absent" THEN 1 ELSE 0)
       ELSE Exit(p, 0) /\ UNCHANGED calls
    /\ UNCHANGED <<sanVars, locVars, rtVars, variant, hasFork, hook_data, window_target,
                   transcript, msg_count, questions, apiResult, name>>

Next ==
    \/ \E p \in Procs : ReadStdin(p)
    \/ \E p \in Procs : Extract(p)
    \/ \E p \in Procs : Fork(p)
    \/ \E p \in Procs : Locate(p)
    \/ \E p \in Procs : ReadTranscript(p)
    \/ \E p \in Procs : Gate(p)
    \/ \E p \in Procs : OtherWindows(p)
    \/ \E p \in Procs : CallApi(p)
    \/ \E p \in Procs : SanitizeStep(p)
    \/ \E p \in Procs : Rename(p)

Spec == Init /\ [][Next]_vars

----------------------------------------------------------------------------
(* Properties of an invocation *)

CallIdx(kinds) == {i \in DOMAIN calls : calls[i].kind \in kinds}
CallsBy(p, kinds) == {i \in CallIdx(kinds) : calls[i].proc = p}

\* the cadence as the documentation states it: the first message, then every third
Permitted(n) == n = 1 \/ (n > 0 /\ n % 3 = 0)

\* p went past the cadence gate: it is between the gate and the exit, or it has
\* issued the window listing that follows the gate
PastGate(p) ==
    \/ pc[p] \in {"windows", "api", "sanitize", "rename"}
    \/ CallsBy(p, {"list-windows"}) # {}

\* C1: in the scripts variant a process goes past the cadence gate iff its user-turn
\* count n is 1 or a positive multiple of 3 (counts 0..6: only 1, 3 and 6 pass), and
\* a process whose count is not permitted issues no network request and no rename.
GateCadence ==
    variant = "scripts" =>
        /\ \A p \in Procs : pc[p] # "gate" => (PastGate(p) <=> Permitted(msg_count[p]))
        /\ \A i \in CallIdx({"http", "rename"}) : Permitted(msg_count[calls[i].proc])
        /\ \A p \in Procs :
             (pc[p] # "gate" /\ msg_count[p] \in 1 .. 6) =>
                (PastGate(p) <=> msg_count[p] \in {1, 3, 6})

\* a transcript of six user turns passed the gate and the network request was sent
GatePassedAtSix ==
    /\ variant = "scripts"
    /\ \E p \in Procs : msg_count[p] = 6 /\ CallsBy(p, {"http"}) # {}

\* C2: a process whose text-generation call failed issues no rename command and
\* exits with code 0.
ApiFailureExitsCleanly ==
    \A p \in Procs :
        (apiResult[p] # NoApiResult /\ ApiFailed(apiResult[p]) /\ pc[p] = "done") =>
            /\ exitCode[p] = 0
            /\ CallsBy(p, {"rename"}) = {}

\* C3: every process of an invocation ends with exit code 0, whatever it was given.
AlwaysExitsZero ==
    \A p \in Procs : pc[p] = "done" => exitCode[p] = 0

\* C7: at most one rename command is issued per invocation, by the original process
\* and the duplicate together; a failed rename is not tried again.
AtMostOneRename ==
    Cardinality(CallIdx({"rename"})) <= 1

\* the one rename exited non-zero and every process has ended
FailedRenameNotRetried ==
    /\ \A p \in Procs : pc[p] \in {"done", "unborn"}
    /\ \E i \in CallIdx({"rename"}) : calls[i].status = "nonzero"

\* C9: every rename command is addressed to the window identity get_tmux_window
\* returned to the issuing process and carries the non-empty sanitize_name of the
\* candidate the API returned; with no target or an empty label none is issued.
RenameAddressedAndSanitized ==
    \A i \in CallIdx({"rename"}) :
        LET p == calls[i].proc
        IN /\ ~Falsy(window_target[p])
           /\ calls[i].target = window_target[p]
           /\ apiResult[p] # NoApiResult
           /\ ~ApiFailed(apiResult[p])
           /\ calls[i].label # <<>>
           /\ calls[i].label = sanitize_name(variant, Strip(apiResult[p].content))

\* a rename was issued whose label differs from the candidate it was made from
RenamedWithCleanedLabel ==
    \E i \in CallIdx({"rename"}) :
        /\ calls[i].label # Strip(apiResult[calls[i].proc].content)
        /\ calls[i].target = window_target[calls[i].proc]

\* C10: where os.fork exists the original process exits at the fork with code 0 and
\* never makes a network or subprocess call; all such calls are the duplicate's,
\* and at most one of them is a network call.
DetachBeforeExternalWork ==
    /\ hasFork =>
        /\ \A i \in DOMAIN calls : calls[i].proc = "dup"
        /\ pc["dup"] # "unborn" => (pc["orig"] = "done" /\ exitCode["orig"] = 0)
    /\ \A p \in Procs : Cardinality(CallsBy(p, {"http"})) <= 1

\* the duplicate made the network call and issued the rename after the original left
DuplicateDidTheWork ==
    /\ hasFork
    /\ pc["orig"] = "done"
    /\ CallsBy("dup", {"http"}) # {}
    /\ CallsBy("dup", {"rename"}) # {}

====
